---------------------------- MODULE Spec2Model ----------------------------
(***************************************************************************)
(* A model of downloadImages (src/src/downloadImages/cli.py): one run of   *)
(* main, from the argument checks through do_download (volume lookup,      *)
(* catalog build, per-destination preparation, the streamed copy, sync,    *)
(* source deletion, unmount) to the hand-off and the exit code.            *)
(*                                                                         *)
(* File names are sequences of one-character strings, so that split,       *)
(* replace and upper are computed as the code computes them.  File sizes   *)
(* are counted in abstract units; ChunkSize is the size of one read of the *)
(* streamed copy in the same units (1024 * 1024 bytes in the code).        *)
(***************************************************************************)
EXTENDS Integers, Sequences, FiniteSets, TLC

\* ------------------------------------------------------------------ bounds
\* At most this many physical files lie on the source volume.
MaxFiles == 3
\* At most this many files lie in the dated destination directories before the run.
MaxPrior == 2
\* Units read and written by one iteration of the copy loop.
ChunkSize == 2

\* ------------------------------------------------------------- file types
jpeg_file_types == <<"JPG">>
still_file_types == jpeg_file_types \o <<"NEF">>
motion_file_types == <<"MOV", "MP4", "NEV">>

\* ---------------------------------------------------------------- strings
LowerCase == <<"a","b","c","d","e","f","g","h","i","j","k","l","m",
               "n","o","p","q","r","s","t","u","v","w","x","y","z">>
UpperCase == <<"A","B","C","D","E","F","G","H","I","J","K","L","M",
               "N","O","P","Q","R","S","T","U","V","W","X","Y","Z">>

\* str.upper() on one character.
UpperChar(c) ==
    IF \E i \in 1..Len(LowerCase) : LowerCase[i] = c
    THEN UpperCase[CHOOSE i \in 1..Len(LowerCase) : LowerCase[i] = c]
    ELSE c

\* str.upper()
Upper(s) == [i \in 1..Len(s) |-> UpperChar(s[i])]

\* str.replace("_", "")
IsNotUnderscore(c) == c # "_"
RemoveUnderscores(s) == SelectSeq(s, IsNotUnderscore)

\* str.startswith(".")
StartsWithDot(s) == Len(s) > 0 /\ s[1] = "."

\* str.split("."): the parts between the dots, empty parts included.
RECURSIVE SplitDot(_)
SplitDot(s) ==
    IF \A i \in 1..Len(s) : s[i] # "."
    THEN <<s>>
    ELSE LET k == CHOOSE i \in 1..Len(s) :
                      s[i] = "." /\ \A j \in 1..(i - 1) : s[j] # "."
         IN <<SubSeq(s, 1, k - 1)>> \o SplitDot(SubSeq(s, k + 1, Len(s)))

\* The members of a list of type names, each as a character sequence.
TypeChars(t) ==
    CASE t = "JPG" -> <<"J","P","G">>
      [] t = "NEF" -> <<"N","E","F">>
      [] t = "MOV" -> <<"M","O","V">>
      [] t = "MP4" -> <<"M","P","4">>
      [] t = "NEV" -> <<"N","E","V">>

\* ext_upper in types
InTypes(ext_upper, types) ==
    \E i \in 1..Len(types) : TypeChars(types[i]) = ext_upper

\* x in list
InList(x, list) == \E i \in 1..Len(list) : list[i] = x

\* src_filename + "." + extension
FileName(stem, extension) == stem \o <<".">> \o extension

\* --------------------------------------------------- the files of the runs
\* The physical files a source volume may hold: directory below DCIM, name,
\* size, and the write-protection set by the camera.
FileUniverse ==
    { [dir |-> "100", name |-> <<"A","_","0","0","1",".","N","E","F">>, size |-> 3, locked |-> TRUE],
      [dir |-> "100", name |-> <<"A","_","0","0","1",".","J","P","G">>, size |-> 1, locked |-> FALSE],
      [dir |-> "100", name |-> <<"A","_","0","0","2",".","M","O","V">>, size |-> 2, locked |-> FALSE],
      [dir |-> "101", name |-> <<"A","_","0","0","1",".","J","P","G">>, size |-> 2, locked |-> TRUE],
      [dir |-> "100", name |-> <<"A","_","0","0","3",".","T","I","F">>, size |-> 1, locked |-> FALSE] }

\* More files a source volume may hold, for the runs of find_source_images
\* alone: a stem without the underscore and a lower-case extension, a
\* lower-case stem in another directory, a hidden file, a file with two dots
\* and a file of an extension that is not an image type.
CatalogUniverse ==
    FileUniverse \cup
    { [dir |-> "100", name |-> <<"A","0","0","1",".","j","p","g">>, size |-> 1, locked |-> FALSE],
      [dir |-> "101", name |-> <<"a","0","0","1",".","J","P","G">>, size |-> 1, locked |-> TRUE],
      [dir |-> "100", name |-> <<".","A","_","0","0","3",".","J","P","G">>, size |-> 1, locked |-> TRUE],
      [dir |-> "100", name |-> <<"A","_","0","0","3",".","1",".","J","P","G">>, size |-> 1, locked |-> TRUE],
      [dir |-> "100", name |-> <<"A","_","0","0","4",".","P","N","G">>, size |-> 1, locked |-> TRUE],
      [dir |-> "100", name |-> <<"A","_","1",".","J","P","G">>, size |-> 1, locked |-> FALSE],
      [dir |-> "100", name |-> <<"A","_","9","0","0","1",".","J","P","G">>, size |-> 1, locked |-> FALSE],
      [dir |-> "100", name |-> <<"A","_","9","9","9","9",".","J","P","G">>, size |-> 1, locked |-> TRUE] }

\* The destination roots named on the command line.
DestinationLists == { <<"A">>, <<"A", "B">> }

\* Files a dated destination directory may hold before the run: left by an
\* earlier download (same size as the source) or by something else.
PriorUniverse ==
    { [dir |-> "A", name |-> <<"A","0","0","1",".","J","P","G">>, size |-> 1, ro |-> FALSE],
      [dir |-> "A", name |-> <<"A","0","0","1",".","J","P","G">>, size |-> 2, ro |-> FALSE],
      [dir |-> "A", name |-> <<"A","0","0","1",".","N","E","F">>, size |-> 3, ro |-> FALSE],
      [dir |-> "B", name |-> <<"A","0","0","1",".","J","P","G">>, size |-> 1, ro |-> FALSE],
      [dir |-> "B", name |-> <<"A","0","0","2",".","M","O","V">>, size |-> 2, ro |-> FALSE] }

\* No two files of a set share a path.
DistinctPaths(S) ==
    \A a, b \in S : (a.dir = b.dir /\ a.name = b.name) => a = b

SourceTrees ==
    { S \in SUBSET FileUniverse : Cardinality(S) <= MaxFiles /\ DistinctPaths(S) }

CatalogTrees ==
    { S \in SUBSET CatalogUniverse : Cardinality(S) <= MaxFiles /\ DistinctPaths(S) }

PriorTrees(dests) ==
    { S \in SUBSET PriorUniverse :
        /\ Cardinality(S) <= MaxPrior
        /\ DistinctPaths(S)
        /\ \A r \in S : InList(r.dir, dests) }


\* ------------------------------------------------------------------ state
VARIABLES
    platform,              \* sys.platform: "darwin" or "win32"
    delete,                \* args.delete
    download_locked_only,  \* args.download_locked_only
    destination_paths,     \* args.destinations
    pc,                    \* the place main has reached
    exc,                   \* the exception raised in main's try block and the place it was raised at
    exitCode,              \* what main returned, or "none"
    returnedAt,            \* the return statement or handler main left by
    caffeinateProcess,     \* "None", "running" or "terminated"
    source_vols,           \* the number of DCF volumes found; -1 before the lookup
    mounted,               \* whether the source volume is mounted
    nearRollover,          \* find_source_images' local flag
    rolloverOccurred,      \* find_source_images' local flag
    warning,               \* the rollover warning find_source_images printed last
    calls,                 \* how often this process has called find_source_images
    run,                   \* the number of the process: 1, or 2 for a second run
    srcFiles,              \* the files below DCIM on the source volume
    walk_todo,             \* the files os.walk has still to yield
    images_db,             \* the catalog, in insertion order
    total_to_transfer,
    file_type_count,
    locked_file_count,
    dstDirs,               \* the destination roots whose dated directory exists
    dstFiles,              \* the image files in the dated directories
    sidecars,              \* the .xmp files written by this run
    destination_dirs,      \* do_download's list of prepared directories
    duplicates,            \* do_download's list of duplicate lists
    pos,                   \* copy_image_files' loop position: image, dest, extension
    offset,                \* units of the open source file read so far
    already_copied,        \* ProgressTracker.already_copied
    handoff,               \* the applications main has started after the download
    src0,                  \* history: srcFiles at the start of the run
    dst0,                  \* history: dstFiles at the start of the run
    dirs0,                 \* history: dstDirs at the start of the run
    copied,                \* history: <<key, dest, extension>> completely copied
    attempted,             \* history: <<key, dest, extension>> whose copy was started
    prepared,              \* history: how often each destination root was prepared
    failure                \* history: the copy_with_progress call that failed

vars == << platform, delete, download_locked_only, destination_paths, pc, exc,
           exitCode, returnedAt, caffeinateProcess, source_vols, srcFiles,
           walk_todo, images_db, total_to_transfer, file_type_count,
           locked_file_count, dstDirs, dstFiles, sidecars, destination_dirs,
           duplicates, pos, offset, already_copied, handoff, src0, dst0, dirs0,
           copied, attempted, prepared, failure, mounted, nearRollover,
           rolloverOccurred, warning, calls, run >>

argVars == << platform, delete, download_locked_only, destination_paths >>
histVars == << src0, dst0, dirs0 >>
catalogVars == << images_db, total_to_transfer, file_type_count, locked_file_count >>
srcVars == << srcFiles, walk_todo >>
dstVars == << dstDirs, dstFiles, sidecars >>
prepVars == << destination_dirs, duplicates, prepared >>
copyVars == << pos, offset, already_copied, copied, attempted, failure >>
rolloverVars == << nearRollover, rolloverOccurred, warning >>
processVars == << calls, run >>

NoException == [type |-> "none", at |-> "none"]
NoFailure == [kind |-> "none", dir |-> "none", name |-> <<>>, removal |-> "none", reraised |-> "none"]

Init ==
    /\ platform \in {"darwin", "win32"}
    /\ delete \in BOOLEAN
    /\ download_locked_only \in BOOLEAN
    /\ destination_paths \in DestinationLists
    /\ pc = "main"
    /\ exc = NoException
    /\ exitCode = "none"
    /\ returnedAt = "none"
    /\ caffeinateProcess = "None"
    /\ source_vols = -1
    /\ srcFiles \in SourceTrees
    /\ walk_todo = {}
    /\ images_db = <<>>
    /\ total_to_transfer = 0
    /\ file_type_count = [t \in {} |-> 0]
    /\ locked_file_count = 0
    /\ dstFiles \in PriorTrees(destination_paths)
    /\ dstDirs = { r.dir : r \in dstFiles }
    /\ sidecars = {}
    /\ destination_dirs = <<>>
    /\ duplicates = <<>>
    /\ pos = [image |-> 1, dest |-> 1, ext |-> 1]
    /\ offset = 0
    /\ already_copied = 0
    /\ handoff = {}
    /\ src0 = srcFiles
    /\ dst0 = dstFiles
    /\ dirs0 = dstDirs
    /\ copied = {}
    /\ attempted = {}
    /\ prepared = [d \in {} |-> 0]
    /\ failure = NoFailure
    /\ mounted = TRUE
    /\ nearRollover = FALSE
    /\ rolloverOccurred = FALSE
    /\ warning = "none"
    /\ calls = 0
    /\ run = 1

\* --------------------------------------------------------------- main (1)
\* An exception leaves do_download (or the try block of main).
Raise(e) ==
    /\ exc' = [type |-> e, at |-> pc]
    /\ pc' = "raised"

\* main's return statement: the exit code and where it was returned.
Return(code, at) ==
    /\ exitCode' = code
    /\ returnedAt' = at
    /\ pc' = "exit"

\* The sanity checks on the argument values, then the keep-awake helper.
\* missing: some destination path does not exist.
MainCheckArgs ==
    /\ pc = "main"
    /\ \E missing \in BOOLEAN :
        IF missing
        THEN /\ Return(2, "missing_destination")
             /\ UNCHANGED caffeinateProcess
        ELSE IF download_locked_only /\ delete
        THEN /\ Return(2, "exclusive_options")
             /\ UNCHANGED caffeinateProcess
        ELSE /\ caffeinateProcess' = IF platform = "darwin" THEN "running" ELSE "None"
             /\ pc' = "find_volume"
             /\ UNCHANGED << exitCode, returnedAt >>
    /\ UNCHANGED << argVars, exc, source_vols, srcVars, catalogVars, dstVars,
                    prepVars, copyVars, handoff, histVars, mounted, rolloverVars, processVars >>

\* ------------------------------------------------------------ do_download
\* Mutant: with several volumes the first one is taken.
VolumeErrorOnlyNone(n) == n < 1

\* The two checks on the list find_source_volume returned: no volume, or several.
VolumeError(n) == n < 1 \/ n > 1

\* find_source_volume and the checks on its result; with one volume
\* find_source_images is called and sets its two flags to False.
DoDownloadFindVolume ==
    /\ pc = "find_volume"
    /\ \E n \in 0..2 :
        /\ source_vols' = n
        /\ IF VolumeError(n)
           THEN /\ Raise("CliError")
                /\ UNCHANGED << walk_todo, nearRollover, rolloverOccurred, calls >>
           ELSE /\ pc' = "find_images"
                /\ walk_todo' = srcFiles
                /\ nearRollover' = FALSE
                /\ rolloverOccurred' = FALSE
                /\ calls' = calls + 1
                /\ UNCHANGED exc
    /\ UNCHANGED << argVars, exitCode, returnedAt, caffeinateProcess, srcFiles,
                    catalogVars, dstVars, prepVars, copyVars, handoff, histVars, mounted,
                    warning, run >>


\* ------------------------------------------------------ find_source_images
\* Mutant: the number of dots is not looked at; the extension is the last part.
IsImageFileNameAnyDots(f) ==
    /\ ~StartsWithDot(f)
    /\ InTypes(Upper(SplitDot(f)[Len(SplitDot(f))]), still_file_types \o motion_file_types)

\* The name filter: not hidden, exactly one dot, a recognized extension.
IsImageFileName(f) ==
    /\ ~StartsWithDot(f)
    /\ Len(SplitDot(f)) = 2
    /\ InTypes(Upper(SplitDot(f)[2]), still_file_types \o motion_file_types)

\* Source_Image.__init__, with the catalog key the record is stored under.
NewSourceImage(image_name, src_filename, src_path, extension, file_locked, size, dst_filename) ==
    [ name |-> image_name,
      src_filename |-> src_filename,
      src_path |-> src_path,
      extensions |-> <<extension>>,
      file_locked |-> file_locked,
      size |-> size,
      dst_filename |-> dst_filename ]

\* image_name in images_db, and the place of its record.
HasKey(db, image_name) == \E i \in 1..Len(db) : db[i].name = image_name
KeyIndex(db, image_name) == CHOOSE i \in 1..Len(db) : db[i].name = image_name

\* Mutant: no extension is ever found in a record.
ContainsFileExtensionNever(image, extension) == FALSE

\* Source_Image.contains_file_extension
ContainsFileExtension(image, extension) == InList(extension, image.extensions)

\* Mutant: the size of a further file is not added to the record.
AddFileExtensionOnly(image, extension, size) ==
    [image EXCEPT !.extensions = Append(@, extension)]

\* Source_Image.add_file_extension, then image.size += size
AddFileExtension(image, extension, size) ==
    [image EXCEPT !.extensions = Append(@, extension), !.size = @ + size]

\* file_type_count[ext_upper] += 1, the key created when it is new.
CountFileType(counts, ext_upper) ==
    IF ext_upper \in DOMAIN counts
    THEN [counts EXCEPT ![ext_upper] = @ + 1]
    ELSE counts @@ (ext_upper :> 1)

\* Mutant: the key keeps the letter case of the file name.
ImageNameAsIs(dst_filename) == dst_filename

\* image_name = dst_filename.upper()
ImageName(dst_filename) == Upper(dst_filename)

\* Mutant: locked-only discards nothing.
LockedOnlySkipsNever(f) == FALSE

\* if download_locked_only and not file_locked: continue
LockedOnlySkips(f) == download_locked_only /\ ~f.locked

\* os.walk yields one directory after the other: a file of a directory comes
\* only while no other directory is half enumerated.
WalkMayYield(f) ==
    \A d \in { g.dir : g \in srcFiles } \ {f.dir} :
        \/ \A g \in srcFiles : g.dir = d => g \in walk_todo
        \/ \A g \in srcFiles : g.dir = d => g \notin walk_todo

\* image_name[-4]: a key of fewer than four characters has no such index.
IndexRaises(image_name) == Len(image_name) < 4

\* image_name[-4] == '9'
IsNearRollover(image_name) == image_name[Len(image_name) - 3] = "9"

\* image_name[-4:] == "9999"
IsRollover(image_name) ==
    SubSeq(image_name, Len(image_name) - 3, Len(image_name)) = <<"9", "9", "9", "9">>

\* Mutant: the nearing warning is printed in preference.
RolloverWarningNearFirst(rolled, near) ==
    IF near THEN "nearing" ELSE IF rolled THEN "rolled_over" ELSE "none"

\* The warning about the image numbers at the end of find_source_images.
RolloverWarning(rolled, near) ==
    IF rolled THEN "rolled_over" ELSE IF near THEN "nearing" ELSE "none"

\* The file_locked of the record that the files of one asset give when they
\* are enumerated in the given order: the flag of the first file that is not
\* skipped creates the record, and a later file leaves it as it is.
RecordFileLocked(order) ==
    LET kept == SelectSeq(order, LAMBDA f : ~LockedOnlySkips(f))
    IN  kept[1].locked

\* One iteration of the loop over the files of the walk.
FindSourceImagesFile ==
    /\ pc = "find_images"
    /\ \E f \in walk_todo :
        /\ WalkMayYield(f)
        /\ walk_todo' = walk_todo \ {f}
        /\ IF ~IsImageFileName(f.name)
           THEN UNCHANGED << pc, exc, catalogVars, nearRollover, rolloverOccurred >>
           ELSE LET fparts == SplitDot(f.name)
                    src_filename == fparts[1]
                    extension == fparts[2]
                    dst_filename == RemoveUnderscores(src_filename)
                    image_name == ImageName(dst_filename)
                    ext_upper == Upper(extension)
                IN  IF IndexRaises(image_name)
                    THEN /\ Raise("IndexError")
                         /\ UNCHANGED << catalogVars, nearRollover, rolloverOccurred >>
                    ELSE /\ nearRollover' = (nearRollover \/ IsNearRollover(image_name))
                         /\ rolloverOccurred' = (rolloverOccurred \/ IsRollover(image_name))
                         /\ IF LockedOnlySkips(f)
                            THEN UNCHANGED << pc, exc, catalogVars >>
                            ELSE IF HasKey(images_db, image_name)
                                    /\ ContainsFileExtension(
                                           images_db[KeyIndex(images_db, image_name)], extension)
                            THEN /\ Raise("CliError")
                                 /\ UNCHANGED catalogVars
                            ELSE /\ images_db' =
                                      IF HasKey(images_db, image_name)
                                      THEN [images_db EXCEPT ![KeyIndex(images_db, image_name)] =
                                                AddFileExtension(@, extension, f.size)]
                                      ELSE Append(images_db,
                                                  NewSourceImage(image_name, src_filename, f.dir,
                                                                 extension, f.locked, f.size,
                                                                 dst_filename))
                                 /\ total_to_transfer' = total_to_transfer + f.size
                                 /\ file_type_count' = CountFileType(file_type_count, ext_upper)
                                 /\ locked_file_count' =
                                      locked_file_count + (IF f.locked THEN 1 ELSE 0)
                                 /\ UNCHANGED << pc, exc >>
    /\ UNCHANGED << argVars, exitCode, returnedAt, caffeinateProcess, source_vols,
                    srcFiles, dstVars, prepVars, copyVars, handoff, histVars, mounted,
                    warning, processVars >>

\* os.stat of a file of the walk fails: the I/O error leaves find_source_images.
FindSourceImagesStatFails ==
    /\ pc = "find_images"
    /\ \E f \in walk_todo :
        /\ WalkMayYield(f)
        /\ IsImageFileName(f.name)
    /\ Raise("OSError")
    /\ UNCHANGED << argVars, exitCode, returnedAt, caffeinateProcess, source_vols,
                    srcVars, catalogVars, dstVars, prepVars, copyVars, handoff, histVars, mounted, rolloverVars, processVars >>

\* The walk is over: find_source_images prints its summary and returns the catalog.
FindSourceImagesReturn ==
    /\ pc = "find_images"
    /\ walk_todo = {}
    /\ warning' = RolloverWarning(rolloverOccurred, nearRollover)
    /\ pc' = "check_writable"
    /\ UNCHANGED << argVars, exc, exitCode, returnedAt, caffeinateProcess, source_vols,
                    srcVars, catalogVars, dstVars, prepVars, copyVars, handoff, histVars, mounted,
                    nearRollover, rolloverOccurred, processVars >>

\* do_download checks that a source it is to delete from can be written.
\* writable: os.access(source_vol[1], os.W_OK)
DoDownloadCheckWritable ==
    /\ pc = "check_writable"
    /\ \E writable \in BOOLEAN :
        IF delete /\ ~writable
        THEN Raise("CliError")
        ELSE /\ pc' = "prepare"
             /\ UNCHANGED exc
    /\ UNCHANGED << argVars, exitCode, returnedAt, caffeinateProcess, source_vols,
                    srcVars, catalogVars, dstVars, prepVars, copyVars, handoff, histVars, mounted, rolloverVars, processVars >>

\* ----------------------------------------------------- look_for_duplicates
\* os.path.exists / os.stat on a path of a set of files.
Exists(files, dir, name) == \E r \in files : r.dir = dir /\ r.name = name
FileAt(files, dir, name) == CHOOSE r \in files : r.dir = dir /\ r.name = name

\* The source path the code rebuilds for one extension of a record.
SrcName(image, extension) == FileName(image.src_filename, extension)
\* The destination name of one extension of a record.
DstName(image, extension) == FileName(image.dst_filename, extension)

\* Mutant: the destination file only has to exist.
SizeMatchesExistsOnly(image, extension, src, dst, dir) ==
    /\ Exists(dst, dir, FileName(image.dst_filename, extension))
    /\ Exists(src, image.src_path, FileName(image.src_filename, extension))

\* The test of the inner loop: the destination file exists and has the size
\* of the source file.
SizeMatches(image, extension, src, dst, dir) ==
    /\ Exists(dst, dir, DstName(image, extension))
    /\ Exists(src, image.src_path, SrcName(image, extension))
    /\ FileAt(dst, dir, DstName(image, extension)).size
         = FileAt(src, image.src_path, SrcName(image, extension)).size

\* os.stat(src_full_path) raises: the rebuilt source path names no file.
StatRaises(image, extension, src, dst, dir) ==
    /\ Exists(dst, dir, DstName(image, extension))
    /\ ~Exists(src, image.src_path, SrcName(image, extension))

\* The names one record appends: its key once for every matching extension.
RECURSIVE DuplicatesOfImage(_, _, _, _, _)
DuplicatesOfImage(image, exts, src, dst, dir) ==
    IF exts = <<>>
    THEN <<>>
    ELSE (IF SizeMatches(image, Head(exts), src, dst, dir) THEN <<image.name>> ELSE <<>>)
         \o DuplicatesOfImage(image, Tail(exts), src, dst, dir)

\* look_for_duplicates: the list it returns for one destination directory.
RECURSIVE LookForDuplicates(_, _, _, _)
LookForDuplicates(db, src, dst, dir) ==
    IF db = <<>>
    THEN <<>>
    ELSE DuplicatesOfImage(Head(db), Head(db).extensions, src, dst, dir)
         \o LookForDuplicates(Tail(db), src, dst, dir)

\* look_for_duplicates raises instead of returning.
LookForDuplicatesRaises(db, src, dst, dir) ==
    \E i \in 1..Len(db) : \E e \in 1..Len(db[i].extensions) :
        StatRaises(db[i], db[i].extensions[e], src, dst, dir)

\* Mutant: copying starts as soon as one destination is prepared.
AllPreparedAfterFirst == Len(destination_dirs) >= 1

\* The loop over destination_paths has come to its end.
AllPrepared == Len(destination_dirs) = Len(destination_paths)

\* create_destination_dir and look_for_duplicates for the next destination path.
DoDownloadPrepare ==
    /\ pc = "prepare"
    /\ ~AllPrepared
    /\ LET dest_path == destination_paths[Len(destination_dirs) + 1]
       IN  /\ dstDirs' = dstDirs \cup {dest_path}
           /\ destination_dirs' = Append(destination_dirs, dest_path)
           /\ prepared' = IF dest_path \in DOMAIN prepared
                          THEN [prepared EXCEPT ![dest_path] = @ + 1]
                          ELSE prepared @@ (dest_path :> 1)
           /\ IF LookForDuplicatesRaises(images_db, srcFiles, dstFiles, dest_path)
              THEN /\ Raise("OSError")
                   /\ UNCHANGED duplicates
              ELSE /\ duplicates' = Append(duplicates,
                                           LookForDuplicates(images_db, srcFiles, dstFiles, dest_path))
                   /\ UNCHANGED << pc, exc >>
    /\ UNCHANGED << argVars, exitCode, returnedAt, caffeinateProcess, source_vols,
                    srcVars, catalogVars, dstFiles, sidecars, copyVars, handoff, histVars, mounted, rolloverVars, processVars >>


\* -------------------------------------------------------- copy_image_files
\* The record, directory, skip list and extension the loops stand at.
CurImage == images_db[pos.image]
CurDest == destination_dirs[pos.dest]
\* Mutant: the first destination's duplicate list decides for every destination.
CurSkipOfFirst == duplicates[1]
CurSkip == duplicates[pos.dest]
CurExtension == CurImage.extensions[pos.ext]
CurTriple == << CurImage.name, CurDest, CurExtension >>

\* The two tests that guard the call of copy_with_progress.
ShouldCopy(image, skip) ==
    /\ ~InList(image.name, skip)
    /\ (~download_locked_only \/ image.file_locked)

\* The three nested loops: the position after the current one.
NextPos ==
    IF pos.ext < Len(CurImage.extensions)
    THEN [pos EXCEPT !.ext = @ + 1]
    ELSE IF pos.dest < Len(destination_dirs)
    THEN [pos EXCEPT !.dest = @ + 1, !.ext = 1]
    ELSE [image |-> pos.image + 1, dest |-> 1, ext |-> 1]

\* All destinations are prepared: copy_image_files is called and creates the
\* progress tracker.
DoDownloadStartCopy ==
    /\ pc = "prepare"
    /\ AllPrepared
    /\ already_copied' = 0
    /\ pos' = [image |-> 1, dest |-> 1, ext |-> 1]
    /\ pc' = IF images_db = <<>> THEN "sync" ELSE "copy"
    /\ UNCHANGED << argVars, exc, exitCode, returnedAt, caffeinateProcess, source_vols,
                    srcVars, catalogVars, dstVars, prepVars, offset, copied,
                    attempted, failure, handoff, histVars, mounted, rolloverVars, processVars >>

\* A destination file with its size or its write protection changed.
WithFile(files, r) ==
    { x \in files : ~(x.dir = r.dir /\ x.name = r.name) } \cup {r}
WithoutFile(files, dir, name) ==
    { x \in files : ~(x.dir = dir /\ x.name = name) }

\* The head of the innermost loop: skip the file, or call copy_with_progress,
\* which opens the source and creates or truncates the destination file.
CopyImageFilesNext ==
    /\ pc = "copy"
    /\ IF ShouldCopy(CurImage, CurSkip)
       THEN /\ Exists(srcFiles, CurImage.src_path, SrcName(CurImage, CurExtension))
            /\ dstFiles' = WithFile(dstFiles,
                                    [dir |-> CurDest, name |-> DstName(CurImage, CurExtension),
                                     size |-> 0,
                                     ro |-> IF Exists(dstFiles, CurDest, DstName(CurImage, CurExtension))
                                            THEN FileAt(dstFiles, CurDest, DstName(CurImage, CurExtension)).ro
                                            ELSE FALSE])
            /\ attempted' = attempted \cup {CurTriple}
            /\ offset' = 0
            /\ pc' = "streaming"
       ELSE /\ pc' = "post_copy"
            /\ UNCHANGED << dstFiles, attempted, offset >>
    /\ UNCHANGED << argVars, exc, exitCode, returnedAt, caffeinateProcess, source_vols,
                    srcVars, catalogVars, dstDirs, sidecars, prepVars, pos,
                    already_copied, copied, failure, handoff, histVars, mounted, rolloverVars, processVars >>

\* The file copy_with_progress reads, and the one it writes.
CurSrcFile == FileAt(srcFiles, CurImage.src_path, SrcName(CurImage, CurExtension))
CurDstFile == FileAt(dstFiles, CurDest, DstName(CurImage, CurExtension))

\* One iteration of the copy loop: read a chunk, write it, update the tracker.
CopyWithProgressChunk ==
    /\ pc = "streaming"
    /\ offset < CurSrcFile.size
    /\ LET n == IF CurSrcFile.size - offset < ChunkSize
                THEN CurSrcFile.size - offset ELSE ChunkSize
       IN  /\ dstFiles' = WithFile(dstFiles, [CurDstFile EXCEPT !.size = @ + n])
           /\ offset' = offset + n
           /\ already_copied' = already_copied + n
    /\ UNCHANGED << argVars, pc, exc, exitCode, returnedAt, caffeinateProcess,
                    source_vols, srcVars, catalogVars, dstDirs, sidecars, prepVars,
                    pos, copied, attempted, failure, handoff, histVars, mounted, rolloverVars, processVars >>

\* The read returns nothing: the files are closed and shutil.copystat copies
\* the source's mode and flags, its write protection among them.
CopyWithProgressCopystat ==
    /\ pc = "streaming"
    /\ offset = CurSrcFile.size
    /\ dstFiles' = WithFile(dstFiles, [CurDstFile EXCEPT !.ro = CurSrcFile.locked])
    /\ copied' = copied \cup {CurTriple}
    /\ pc' = "post_copy"
    /\ UNCHANGED << argVars, exc, exitCode, returnedAt, caffeinateProcess, source_vols,
                    srcVars, catalogVars, dstDirs, sidecars, prepVars, pos, offset,
                    already_copied, attempted, failure, handoff, histVars, mounted, rolloverVars, processVars >>

\* Mutant: the except clause leaves the suspect file where it is.
RemoveSuspectNever(files, dir, name, removed) == files

\* Mutant: the except clause clears the whole destination directory.
RemoveSuspectRollback(files, dir, name, removed) ==
    IF removed THEN { x \in files : x.dir # dir } ELSE files

\* The except clause of copy_with_progress: os.remove(dst_file), whose own
\* failure is ignored; removed says whether the removal went through.
RemoveSuspect(files, dir, name, removed) ==
    IF removed THEN WithoutFile(files, dir, name) ELSE files

\* How os.remove ended: the file is gone, there was none (FileNotFoundError),
\* or it could not be removed.
RemovalOutcome(files, dir, name, removed) ==
    IF removed THEN "removed"
    ELSE IF Exists(files, dir, name) THEN "remove_failed"
    ELSE "no_file"

\* raise e: the error the caller sees is the one that was caught, whatever
\* os.remove did.
Reraised(kind, outcome) == kind

\* The places a call of copy_with_progress can fail at.
FailureKinds ==
    IF pc = "copy" THEN {"open"}
    ELSE IF offset < CurSrcFile.size THEN {"write"}
    ELSE {"copystat"}

\* An I/O error inside copy_with_progress: the handler removes the destination
\* file as well as it can and raises the error again.
CopyWithProgressFails ==
    /\ \/ pc = "copy" /\ ShouldCopy(CurImage, CurSkip)
       \/ pc = "streaming"
    /\ \E kind \in FailureKinds :
       \E removed \in BOOLEAN :
        /\ removed => Exists(dstFiles, CurDest, DstName(CurImage, CurExtension))
        /\ dstFiles' = RemoveSuspect(dstFiles, CurDest, DstName(CurImage, CurExtension), removed)
        /\ LET outcome == RemovalOutcome(dstFiles, CurDest,
                                         DstName(CurImage, CurExtension), removed)
           IN  failure' = [kind |-> kind, dir |-> CurDest,
                           name |-> DstName(CurImage, CurExtension),
                           removal |-> outcome, reraised |-> Reraised(kind, outcome)]
    /\ attempted' = attempted \cup {CurTriple}
    /\ Raise("OSError")
    /\ UNCHANGED << argVars, exitCode, returnedAt, caffeinateProcess, source_vols,
                    srcVars, catalogVars, dstDirs, sidecars, prepVars, pos, offset,
                    already_copied, copied, handoff, histVars, mounted, rolloverVars, processVars >>

\* Mutant: a sidecar that is there is left alone.
WriteSidecarIfAbsent(cars, dir, stem, purple) ==
    IF \E c \in cars : c.dir = dir /\ c.stem = stem
    THEN cars
    ELSE cars \cup {[dir |-> dir, stem |-> stem, purple |-> purple, writes |-> 1]}

\* The sidecar of one still file: written anew, whatever was there.
WriteSidecar(cars, dir, stem, purple) ==
    LET old == { c \in cars : c.dir = dir /\ c.stem = stem }
        n == IF old = {} THEN 0 ELSE (CHOOSE c \in old : TRUE).writes
    IN  (cars \ old) \cup {[dir |-> dir, stem |-> stem, purple |-> purple, writes |-> n + 1]}

\* Mutant: the source file of a locked image is always made writable.
ClearsSourceProtectionAlways(image) == image.file_locked

\* if image.file_locked: ... if delete: the write protection of the source
\* file is cleared as well.
ClearsSourceProtection(image) == image.file_locked /\ delete

\* The rest of the innermost loop's body: clear the write protection of the
\* destination file (and of the source file when it is to be deleted) of a
\* locked image, write the sidecar of a still file, step to the next file.
CopyImageFilesPost ==
    /\ pc = "post_copy"
    /\ LET dst_name == DstName(CurImage, CurExtension)
           src_name == SrcName(CurImage, CurExtension)
           chmodRaises ==
               /\ CurImage.file_locked
               /\ \/ ~Exists(dstFiles, CurDest, dst_name)
                  \/ /\ ClearsSourceProtection(CurImage)
                     /\ ~Exists(srcFiles, CurImage.src_path, src_name)
       IN  /\ dstFiles' =
                 IF CurImage.file_locked /\ Exists(dstFiles, CurDest, dst_name)
                 THEN WithFile(dstFiles, [CurDstFile EXCEPT !.ro = FALSE])
                 ELSE dstFiles
           /\ srcFiles' =
                 IF ClearsSourceProtection(CurImage)
                    /\ Exists(dstFiles, CurDest, dst_name)
                    /\ Exists(srcFiles, CurImage.src_path, src_name)
                 THEN WithFile(srcFiles, [CurSrcFile EXCEPT !.locked = FALSE])
                 ELSE srcFiles
           /\ IF chmodRaises
              THEN /\ Raise("OSError")
                   /\ UNCHANGED << sidecars, pos >>
              ELSE /\ sidecars' =
                        IF InTypes(Upper(CurExtension), still_file_types)
                        THEN WriteSidecar(sidecars, CurDest, CurImage.dst_filename,
                                          CurImage.file_locked)
                        ELSE sidecars
                   /\ pos' = NextPos
                   /\ pc' = IF NextPos.image > Len(images_db) THEN "sync" ELSE "copy"
                   /\ UNCHANGED exc
    /\ UNCHANGED << argVars, exitCode, returnedAt, caffeinateProcess, source_vols,
                    walk_todo, catalogVars, dstDirs, prepVars, offset, already_copied,
                    copied, attempted, failure, handoff, histVars, mounted, rolloverVars, processVars >>


\* ------------------------------------------------- the end of do_download
\* subprocess.run(..., check=True): CalledProcessError when the command fails.
\* ok: the command returned status 0.
RunChecked(ok, next) ==
    IF ok
    THEN /\ pc' = next
         /\ UNCHANGED exc
    ELSE Raise("CalledProcessError")

\* The disk caches are flushed on Mac OS.
DoDownloadSync ==
    /\ pc = "sync"
    /\ IF platform = "darwin"
       THEN \E ok \in BOOLEAN : RunChecked(ok, "delete")
       ELSE /\ pc' = "delete"
            /\ UNCHANGED exc
    /\ UNCHANGED << argVars, exitCode, returnedAt, caffeinateProcess, source_vols,
                    srcVars, catalogVars, dstVars, prepVars, copyVars, handoff, histVars, mounted, rolloverVars, processVars >>

\* Mutant: the source tree is removed whether or not delete was requested.
ShouldDeleteAlways == TRUE

\* if delete:
ShouldDelete == delete

\* shutil.rmtree(source_vol[1]) when delete is set.
DoDownloadDelete ==
    /\ pc = "delete"
    /\ srcFiles' = IF ShouldDelete THEN {} ELSE srcFiles
    /\ pc' = "unmount"
    /\ UNCHANGED << argVars, exc, exitCode, returnedAt, caffeinateProcess, source_vols,
                    walk_todo, catalogVars, dstVars, prepVars, copyVars, handoff, histVars, mounted, rolloverVars, processVars >>

\* diskutil unmount on Mac OS, then do_download returns dir_name.
DoDownloadUnmount ==
    /\ pc = "unmount"
    /\ IF platform = "darwin"
       THEN \E ok \in BOOLEAN :
               /\ RunChecked(ok, "returned")
               /\ mounted' = ~ok
       ELSE /\ pc' = "returned"
            /\ UNCHANGED << exc, mounted >>
    /\ UNCHANGED << argVars, exitCode, returnedAt, caffeinateProcess, source_vols,
                    srcVars, catalogVars, dstVars, prepVars, copyVars, handoff, histVars,
                    rolloverVars, processVars >>

\* --------------------------------------------------------------- main (2)
\* if caffeinateProcess != None: caffeinateProcess.terminate()
Terminate(process) == IF process # "None" THEN "terminated" ELSE process

\* Mutant: Lightroom is started while the source volume is still mounted.
MainAfterDownloadBeforeUnmount ==
    /\ pc \in {"unmount", "returned"}
    /\ caffeinateProcess' = Terminate(caffeinateProcess)
    /\ handoff' = handoff \cup {"lightroom"}
    /\ pc' = "resolve"
    /\ UNCHANGED << argVars, exc, exitCode, returnedAt, source_vols, srcVars,
                    catalogVars, dstVars, prepVars, copyVars, histVars, mounted, rolloverVars, processVars >>

\* do_download has returned: the helper is terminated and, with --automate,
\* Lightroom is started on the first destination.
MainAfterDownload ==
    /\ pc = "returned"
    /\ caffeinateProcess' = Terminate(caffeinateProcess)
    /\ \E automate \in BOOLEAN :
        handoff' = IF automate THEN handoff \cup {"lightroom"} ELSE handoff
    /\ pc' = "resolve"
    /\ UNCHANGED << argVars, exc, exitCode, returnedAt, source_vols, srcVars,
                    catalogVars, dstVars, prepVars, copyVars, histVars, mounted, rolloverVars, processVars >>

\* With --resolve the motion clips are ingested; a ResolveError makes main
\* return 1, everything else ends in return 0.
MainResolve ==
    /\ pc = "resolve"
    /\ \E automateResolve \in BOOLEAN :
       \E ok \in BOOLEAN :
        IF ~automateResolve
        THEN /\ ok
             /\ Return(0, "success")
             /\ UNCHANGED << handoff, exc >>
        ELSE /\ handoff' = handoff \cup {"resolve"}
             /\ IF ok
                THEN /\ Return(0, "success")
                     /\ UNCHANGED exc
                ELSE /\ Return(1, "resolve_error")
                     /\ exc' = [type |-> "ResolveError", at |-> pc]
    /\ UNCHANGED << argVars, caffeinateProcess, source_vols, srcVars, catalogVars,
                    dstVars, prepVars, copyVars, histVars, mounted, rolloverVars, processVars >>

\* Mutant: the clause for unexpected exceptions forgets the helper.
HandlerTerminatesNotAll(e) ==
    CASE e = "KeyboardInterrupt" -> TRUE
      [] e = "CliError" -> TRUE
      [] OTHER -> FALSE

\* Whether the except clause that catches e terminates the helper: the three
\* clauses (KeyboardInterrupt, CliError, Exception) all do.
HandlerTerminates(e) ==
    CASE e = "KeyboardInterrupt" -> TRUE
      [] e = "CliError" -> TRUE
      [] OTHER -> TRUE

\* The except clause that catches e.
HandlerOf(e) ==
    CASE e = "KeyboardInterrupt" -> "except_KeyboardInterrupt"
      [] e = "CliError" -> "except_CliError"
      [] OTHER -> "except_Exception"

\* Mutant: the clause for a keyboard interrupt reports success.
ExceptReturnsInterruptAsSuccess(e) ==
    CASE e = "KeyboardInterrupt" -> 0
      [] OTHER -> 2

\* The value the except clause that catches e returns.
ExceptReturns(e) ==
    CASE e = "KeyboardInterrupt" -> 2
      [] e = "CliError" -> 2
      [] OTHER -> 2

\* An exception raised in the try block reaches its except clause.
MainExcept ==
    /\ pc = "raised"
    /\ caffeinateProcess' = IF HandlerTerminates(exc.type)
                            THEN Terminate(caffeinateProcess)
                            ELSE caffeinateProcess
    /\ Return(ExceptReturns(exc.type), HandlerOf(exc.type))
    /\ UNCHANGED << argVars, exc, source_vols, srcVars, catalogVars, dstVars,
                    prepVars, copyVars, handoff, histVars, mounted, rolloverVars, processVars >>

\* The places of the try block a keyboard interrupt can strike at.
Interruptible ==
    { "find_volume", "find_images", "check_writable", "prepare", "copy", "streaming", "post_copy",
      "sync", "delete", "unmount", "returned", "resolve" }

\* The user interrupts the run.
KeyboardInterrupt ==
    /\ pc \in Interruptible
    /\ Raise("KeyboardInterrupt")
    /\ UNCHANGED << argVars, exitCode, returnedAt, caffeinateProcess, source_vols,
                    srcVars, catalogVars, dstVars, prepVars, copyVars, handoff, histVars, mounted, rolloverVars, processVars >>

\* ------------------------------------------------------- the specification
Next ==
    \/ MainCheckArgs
    \/ DoDownloadFindVolume
    \/ FindSourceImagesFile
    \/ FindSourceImagesStatFails
    \/ FindSourceImagesReturn
    \/ DoDownloadCheckWritable
    \/ DoDownloadPrepare
    \/ DoDownloadStartCopy
    \/ CopyImageFilesNext
    \/ CopyWithProgressChunk
    \/ CopyWithProgressCopystat
    \/ CopyWithProgressFails
    \/ CopyImageFilesPost
    \/ DoDownloadSync
    \/ DoDownloadDelete
    \/ DoDownloadUnmount
    \/ MainAfterDownload
    \/ MainResolve
    \/ MainExcept
    \/ KeyboardInterrupt

Spec == Init /\ [][Next]_vars

\* ------------------------------------------------------------ a second run
\* The program is started again after a download without delete has gone
\* through: a new process with the same arguments, the same source (the
\* volume mounted again) and the destinations as the first run left them.
StartSecondRun ==
    /\ pc = "exit"
    /\ exitCode \in {0, 1}
    /\ ~delete
    /\ run = 1
    /\ run' = 2
    /\ pc' = "main"
    /\ exc' = NoException
    /\ exitCode' = "none"
    /\ returnedAt' = "none"
    /\ caffeinateProcess' = "None"
    /\ source_vols' = -1
    /\ walk_todo' = {}
    /\ images_db' = <<>>
    /\ total_to_transfer' = 0
    /\ file_type_count' = [t \in {} |-> 0]
    /\ locked_file_count' = 0
    /\ sidecars' = {}
    /\ destination_dirs' = <<>>
    /\ duplicates' = <<>>
    /\ pos' = [image |-> 1, dest |-> 1, ext |-> 1]
    /\ offset' = 0
    /\ already_copied' = 0
    /\ handoff' = {}
    /\ dst0' = dstFiles
    /\ dirs0' = dstDirs
    /\ copied' = {}
    /\ attempted' = {}
    /\ prepared' = [d \in {} |-> 0]
    /\ failure' = NoFailure
    /\ mounted' = TRUE
    /\ nearRollover' = FALSE
    /\ rolloverOccurred' = FALSE
    /\ warning' = "none"
    /\ calls' = 0
    /\ UNCHANGED << argVars, srcFiles, dstDirs, dstFiles, src0 >>

RerunInit == Init /\ ~delete

RerunNext ==
    \/ MainCheckArgs
    \/ DoDownloadFindVolume
    \/ FindSourceImagesFile
    \/ FindSourceImagesStatFails
    \/ FindSourceImagesReturn
    \/ DoDownloadCheckWritable
    \/ DoDownloadPrepare
    \/ DoDownloadStartCopy
    \/ CopyImageFilesNext
    \/ CopyWithProgressChunk
    \/ CopyWithProgressCopystat
    \/ CopyWithProgressFails
    \/ CopyImageFilesPost
    \/ DoDownloadSync
    \/ DoDownloadDelete
    \/ DoDownloadUnmount
    \/ MainAfterDownload
    \/ MainResolve
    \/ MainExcept
    \/ StartSecondRun

SpecRerun == RerunInit /\ [][RerunNext]_vars

\* --------------------------------- find_source_images on its own (catalog)
\* do_download has found one volume and calls find_source_images on a source
\* tree drawn from the larger set of files.
CatalogInit ==
    /\ platform \in {"darwin", "win32"}
    /\ delete = FALSE
    /\ download_locked_only \in BOOLEAN
    /\ destination_paths = <<"A">>
    /\ pc = "find_images"
    /\ exc = NoException
    /\ exitCode = "none"
    /\ returnedAt = "none"
    /\ caffeinateProcess = (IF platform = "darwin" THEN "running" ELSE "None")
    /\ source_vols = 1
    /\ srcFiles \in CatalogTrees
    /\ walk_todo = srcFiles
    /\ images_db = <<>>
    /\ total_to_transfer = 0
    /\ file_type_count = [t \in {} |-> 0]
    /\ locked_file_count = 0
    /\ dstFiles = {}
    /\ dstDirs = {}
    /\ sidecars = {}
    /\ destination_dirs = <<>>
    /\ duplicates = <<>>
    /\ pos = [image |-> 1, dest |-> 1, ext |-> 1]
    /\ offset = 0
    /\ already_copied = 0
    /\ handoff = {}
    /\ src0 = srcFiles
    /\ dst0 = dstFiles
    /\ dirs0 = dstDirs
    /\ copied = {}
    /\ attempted = {}
    /\ prepared = [d \in {} |-> 0]
    /\ failure = NoFailure
    /\ mounted = TRUE
    /\ nearRollover = FALSE
    /\ rolloverOccurred = FALSE
    /\ warning = "none"
    /\ calls = 1
    /\ run = 1

CatalogNext ==
    \/ FindSourceImagesFile
    \/ FindSourceImagesStatFails
    \/ FindSourceImagesReturn

SpecCatalog == CatalogInit /\ [][CatalogNext]_vars

\* ------------------------------- find_source_images twice in one process
\* A caller that has the catalog calls find_source_images again on the same
\* source: the locals start anew, the module-level images_db and counters
\* are what the first call left, since the function does not reset them.
FindSourceImagesAgain ==
    /\ pc = "check_writable"
    /\ calls = 1
    /\ calls' = 2
    /\ pc' = "find_images"
    /\ walk_todo' = srcFiles
    /\ nearRollover' = FALSE
    /\ rolloverOccurred' = FALSE
    /\ warning' = "none"
    /\ UNCHANGED << argVars, exc, exitCode, returnedAt, caffeinateProcess, source_vols,
                    srcFiles, catalogVars, dstVars, prepVars, copyVars, handoff, histVars,
                    mounted, run >>

TwiceNext ==
    \/ FindSourceImagesFile
    \/ FindSourceImagesStatFails
    \/ FindSourceImagesReturn
    \/ FindSourceImagesAgain

SpecTwice == CatalogInit /\ [][TwiceNext]_vars


\* ================================================================== claims
\* A copy_with_progress call has failed.
CopyFailed == failure.kind # "none"

\* C1 as stated: after a failed copy_with_progress no file exists at the
\* destination path it was writing, and the error the caller sees is the
\* original one.  (Refuted: os.remove may fail, and its failure is ignored.)
C1_NoFileAfterFailedCopy ==
    CopyFailed =>
        /\ ~Exists(dstFiles, failure.dir, failure.name)
        /\ failure.reraised = failure.kind

\* C1 amended: after a failed copy_with_progress the error the caller sees is
\* the original one, and no file exists at the destination path unless the
\* removal of the suspect file itself failed.
C1_NoFileUnlessRemoveFailed ==
    CopyFailed =>
        /\ failure.reraised = failure.kind
        /\ exc.type = "OSError"
        /\ failure.removal # "remove_failed" => ~Exists(dstFiles, failure.dir, failure.name)
        /\ failure.removal = "remove_failed" => Exists(dstFiles, failure.dir, failure.name)

\* C1 witness: a copy failed in the middle of the stream, after a chunk was
\* written, and the partial file was removed.
C1_Witness ==
    /\ failure.kind = "write"
    /\ failure.removal = "removed"
    /\ offset > 0
    /\ pc = "raised"

\* The record of a catalog key.
ImageOf(key) == images_db[KeyIndex(images_db, key)]

\* C2 as stated: a key is in a destination's duplicate list only if every
\* extension of the asset has a destination file of the source file's size.
\* (Refuted by the code: one matching extension is enough.)
C2_DuplicateOnlyIfEveryExtensionMatches ==
    \A i \in 1..Len(duplicates) :
        \A j \in 1..Len(duplicates[i]) :
            LET image == ImageOf(duplicates[i][j])
            IN  \A e \in 1..Len(image.extensions) :
                    SizeMatches(image, image.extensions[e], src0, dst0, destination_dirs[i])

\* A set of files with the size of one of them changed by delta.
Resized(files, dir, name, delta) ==
    { IF r.dir = dir /\ r.name = name THEN [r EXCEPT !.size = @ + delta] ELSE r : r \in files }

\* The file systems (source, destination) that differ from the current ones
\* by one unit in the size of the source or of the destination file of one
\* extension of a record.
OneByteChanges(image, extension, dir) ==
    { << Resized(srcFiles, image.src_path, SrcName(image, extension), delta), dstFiles >> :
          delta \in {-1, 1} }
    \cup
    { << srcFiles, Resized(dstFiles, dir, DstName(image, extension), delta) >> :
          delta \in {-1, 1} }

\* The catalog is built and nothing has been copied yet.
CatalogBuilt == pc \in {"check_writable", "prepare"}

Positions ==
    UNION { UNION { { << i, d, e >> : e \in 1..Len(images_db[i].extensions) } :
                    d \in 1..Len(destination_dirs) } :
            i \in 1..Len(images_db) }

\* The <<key, dest, extension>> of a position.
TripleAt(p) == << images_db[p[1]].name, destination_dirs[p[2]], images_db[p[1]].extensions[p[3]] >>

\* The loops have gone past position p.
PosBefore(p) ==
    \/ p[1] < pos.image
    \/ p[1] = pos.image /\ p[2] < pos.dest
    \/ p[1] = pos.image /\ p[2] = pos.dest /\ p[3] < pos.ext

\* The destination file of position p is there, with the size of its source file.
CompleteAt(p) ==
    LET image == images_db[p[1]]
        ext == image.extensions[p[3]]
    IN  /\ Exists(dstFiles, destination_dirs[p[2]], DstName(image, ext))
        /\ Exists(src0, image.src_path, SrcName(image, ext))
        /\ FileAt(dstFiles, destination_dirs[p[2]], DstName(image, ext)).size
             = FileAt(src0, image.src_path, SrcName(image, ext)).size

\* A file of the source volume as it was at the start is gone.
SourceDeleted == \E f \in src0 : ~Exists(srcFiles, f.dir, f.name)

\* copy_image_files went through every position without an error, and every
\* file it had to copy is at its destination.
CopyReturned ==
    /\ source_vols = 1
    /\ destination_dirs = destination_paths
    /\ Len(duplicates) = Len(destination_paths)
    /\ pos.image > Len(images_db)
    /\ ~CopyFailed
    /\ \A p \in Positions :
           ShouldCopy(images_db[p[1]], duplicates[p[2]]) =>
               TripleAt(p) \in copied /\ CompleteAt(p)

\* C4: a source file is deleted only when delete was requested and
\* copy_image_files has returned without error; when the volume lookup, the
\* catalog build or the copy phase fails, no source file is deleted.
C4_DeleteOnlyAfterCopy ==
    /\ SourceDeleted => delete /\ CopyReturned
    /\ exc.at \in {"find_volume", "find_images", "check_writable", "prepare",
                   "copy", "streaming", "post_copy"} => ~SourceDeleted

\* C4 witness: a run with delete has copied files, removed the source tree
\* and returned 0.
C4_Witness ==
    /\ SourceDeleted
    /\ copied # {}
    /\ pc = "exit"
    /\ exitCode = 0

\* copy_image_files has returned to do_download.
AfterCopyPhase == pc \in {"sync", "delete", "unmount", "returned", "resolve"}

\* C5: every (asset, destination, extension) the loops have gone past was
\* copied if the asset is not in that destination's own duplicate list, and
\* was not touched if it is; when copy_image_files returns, the loops have
\* gone past every one of them.
C5_PerDestinationDecision ==
    \A p \in Positions :
        (PosBefore(p) \/ AfterCopyPhase) =>
            LET image == images_db[p[1]]
                own == LookForDuplicates(images_db, src0, dst0, destination_paths[p[2]])
            IN  /\ (~InList(image.name, own) /\ (~download_locked_only \/ image.file_locked))
                       => TripleAt(p) \in copied
                /\ InList(image.name, own) => TripleAt(p) \notin attempted

\* C5 witness: copy_image_files has returned; an asset of two extensions was a
\* duplicate at the first destination and not at the second, and both of its
\* files were copied to the second and none to the first.
C5_Witness ==
    /\ pc = "sync"
    /\ Len(destination_dirs) = 2
    /\ \E i \in 1..Len(images_db) :
        /\ Len(images_db[i].extensions) = 2
        /\ InList(images_db[i].name, duplicates[1])
        /\ ~InList(images_db[i].name, duplicates[2])
        /\ \A e \in 1..2 :
            /\ << images_db[i].name, "B", images_db[i].extensions[e] >> \in copied
            /\ << images_db[i].name, "A", images_db[i].extensions[e] >> \notin attempted

\* A copy has begun: copy_image_files is running, or a file was opened or a
\* byte counted.
CopyBegun ==
    \/ pc \in {"copy", "streaming", "post_copy"}
    \/ attempted # {}
    \/ already_copied > 0

\* C6: once copying has begun every requested destination path has been
\* prepared exactly once (directory created, duplicates looked for), and the
\* duplicate lists in use are those of the destinations as they were before
\* the first copy.
C6_PrepareBeforeCopy ==
    CopyBegun =>
        /\ destination_dirs = destination_paths
        /\ Len(duplicates) = Len(destination_paths)
        /\ \A d \in 1..Len(destination_paths) :
            /\ destination_paths[d] \in dstDirs
            /\ destination_paths[d] \in DOMAIN prepared
            /\ prepared[destination_paths[d]] = 1
            /\ duplicates[d] = LookForDuplicates(images_db, src0, dst0, destination_paths[d])

\* C6 witness: bytes are being written to the first of two destinations while
\* the second, which holds a duplicate, is already prepared.
C6_Witness ==
    /\ pc = "streaming"
    /\ offset > 0
    /\ pos.dest = 1
    /\ Len(destination_paths) = 2
    /\ Len(duplicates) = 2
    /\ duplicates[2] # <<>>

\* C7: when a copy fails the error leaves do_download and main returns 2, no
\* copy after the failed one is started, and every file copied completely
\* before is still at its destination with its full size.
C7_FailureStopsWithoutRollback ==
    CopyFailed =>
        /\ pc \in {"raised", "exit"}
        /\ exc.type = "OSError"
        /\ exc.at \in {"copy", "streaming"}
        /\ pc = "exit" => exitCode = 2 /\ returnedAt = "except_Exception"
        /\ \A p \in Positions :
            /\ TripleAt(p) \in attempted => PosBefore(p) \/ p = << pos.image, pos.dest, pos.ext >>
            /\ TripleAt(p) \in copied => PosBefore(p) /\ CompleteAt(p)

\* C7 witness: a copy to the second destination failed after files were
\* copied to both destinations, and main has returned.
C7_Witness ==
    /\ CopyFailed
    /\ pc = "exit"
    /\ failure.dir = "B"
    /\ \E t \in copied : t[2] = "A"
    /\ \E t \in copied : t[2] = "B"

\* --------------------------------------------------------------- C8 - C10
\* C8 as stated: a failing sync or unmount command does not change the
\* outcome: do_download returns and main returns 0.  (Refuted by the code:
\* check=True turns the failure into an exception and main returns 2.)
C8_FinishingFailureKeepsSuccess ==
    exc.type = "CalledProcessError" =>
        /\ pc # "raised"
        /\ pc = "exit" => exitCode = 0

\* Nothing on the destinations or on the source differs from the start.
NothingMutated ==
    /\ dstDirs = dirs0
    /\ dstFiles = dst0
    /\ sidecars = {}
    /\ srcFiles = src0

\* C9: with no volume or several, and with delete on a source that cannot be
\* written, do_download raises CliError with nothing created, written,
\* changed or deleted; a missing destination path or delete with locked-only
\* make main return 2 before the volume lookup and before the helper starts.
C9_EnvironmentErrorsBeforeMutation ==
    /\ source_vols \in {0, 2} =>
           /\ exc = [type |-> "CliError", at |-> "find_volume"]
           /\ pc \in {"raised", "exit"}
           /\ NothingMutated
    /\ (exc.type = "CliError" /\ exc.at = "check_writable") =>
           delete /\ NothingMutated
    /\ returnedAt \in {"missing_destination", "exclusive_options"} =>
           /\ exitCode = 2
           /\ source_vols = -1
           /\ caffeinateProcess = "None"
           /\ NothingMutated
    /\ (pc = "exit" /\ exc.type = "CliError") => exitCode = 2

\* C9 witness: delete was requested for a cataloged source that cannot be
\* written, two destinations without dated directories were named, and main
\* has returned.
C9_Witness ==
    /\ pc = "exit"
    /\ exc = [type |-> "CliError", at |-> "check_writable"]
    /\ images_db # <<>>
    /\ Len(destination_paths) = 2
    /\ dstDirs = {}

\* C10: when main has returned after the keep-awake helper was started, the
\* helper has been terminated.
C10_HelperTerminated ==
    pc = "exit" => caffeinateProcess # "running"

\* C10 witness: main has returned through the clause for unexpected
\* exceptions with the helper started and terminated.
C10_Witness ==
    /\ pc = "exit"
    /\ returnedAt = "except_Exception"
    /\ caffeinateProcess = "terminated"

\* -------------------------------------------------------------- C11 - C13
\* The exceptions do_download lets out when something other than a CliError
\* goes wrong.
OtherExceptions == {"OSError", "CalledProcessError"}

\* C11: main returns an integer code: 0 when do_download returned and the
\* requested hand-off went through; 2 for a missing destination path, for
\* delete with locked-only, for a CliError, for a keyboard interrupt and for
\* any other exception; 1 when (and only when) the Resolve ingest failed.
C11_ExitCodes ==
    /\ pc # "exit" => exitCode = "none"
    /\ pc = "exit" =>
        /\ exitCode \in {0, 1, 2}
        /\ returnedAt \in {"missing_destination", "exclusive_options"} => exitCode = 2
        /\ exc.type = "CliError" =>
               /\ exitCode = 2
               /\ exc.at \in {"find_volume", "find_images", "check_writable"}
        /\ exc.type = "KeyboardInterrupt" => exitCode = 2
        /\ exc.type \in OtherExceptions => exitCode = 2
        /\ exitCode = 1 <=> exc.type = "ResolveError"
        /\ exitCode = 1 => "resolve" \in handoff /\ returnedAt = "resolve_error"
        /\ exitCode = 0 <=>
               /\ exc.type = "none"
               /\ returnedAt = "success"
        /\ exitCode = 0 => source_vols = 1 /\ pos.image > Len(images_db)

\* C11 witness: main has returned 2 for a keyboard interrupt that struck
\* during the Resolve ingest, after a download that copied files.
C11_Witness ==
    /\ pc = "exit"
    /\ exitCode = 2
    /\ exc = [type |-> "KeyboardInterrupt", at |-> "resolve"]
    /\ copied # {}

\* The stem, the extension and the normalized stem of a physical file.
StemOf(f) == SplitDot(f.name)[1]
ExtensionOf(f) == SplitDot(f.name)[2]
NormalizedStem(stem) == Upper(RemoveUnderscores(stem))

\* The files of the source tree that pass the name filter, and those of them
\* that are cataloged (under locked-only, the locked ones).
ImageFiles == { f \in src0 : IsImageFileName(f.name) }
Cataloged == { f \in ImageFiles : ~download_locked_only \/ f.locked }

\* find_source_images has returned the catalog.
CatalogReturned == pc = "check_writable"

\* The places of the records whose key is the normalized stem of f.
RecordsOf(f) ==
    { i \in 1..Len(images_db) : images_db[i].name = NormalizedStem(StemOf(f)) }

\* C12: after find_source_images has succeeded every cataloged file has
\* exactly one record, the one of its normalized stem, whose extension list
\* holds its extension, so that files of equal normalized stems share a
\* record; and no two keys are equal after normalization.
C12_CatalogGrouping ==
    CatalogReturned =>
        /\ \A f \in Cataloged :
               /\ Cardinality(RecordsOf(f)) = 1
               /\ \A i \in RecordsOf(f) : InList(ExtensionOf(f), images_db[i].extensions)
        /\ \A f, g \in Cataloged :
               NormalizedStem(StemOf(f)) = NormalizedStem(StemOf(g)) => RecordsOf(f) = RecordsOf(g)
        /\ \A i, j \in 1..Len(images_db) :
               NormalizedStem(images_db[i].name) = NormalizedStem(images_db[j].name) => i = j

\* C12 witness: the catalog has one record of two extensions that came from
\* files whose stems differ in letter case.
C12_Witness ==
    /\ CatalogReturned
    /\ Len(images_db) = 1
    /\ Len(images_db[1].extensions) = 2
    /\ \E f, g \in Cataloged :
           /\ StemOf(f) # StemOf(g)
           /\ RemoveUnderscores(StemOf(f)) # RemoveUnderscores(StemOf(g))

\* Two different files of equal normalized stem and equal extension.
Collide(f, g) ==
    /\ f # g
    /\ NormalizedStem(StemOf(f)) = NormalizedStem(StemOf(g))
    /\ ExtensionOf(f) = ExtensionOf(g)

\* C13 as stated: find_source_images never returns a catalog for a source
\* tree with two image files of the same key and extension.  (Refuted:
\* under locked-only an unlocked one of the two is discarded before the test.)
C13_CollisionAlwaysFails ==
    CatalogReturned => ~\E f, g \in ImageFiles : Collide(f, g)

\* C13 amended: find_source_images never returns a catalog when two of the
\* files it catalogs have the same key and extension, in whatever order
\* they come; and the CliError it raises is for such a pair.
C13_CollisionOfCatalogedFails ==
    /\ CatalogReturned => ~\E f, g \in Cataloged : Collide(f, g)
    /\ (exc.type = "CliError" /\ exc.at = "find_images") =>
           \E f, g \in Cataloged : Collide(f, g)

\* C13 witness: the CliError was raised for two files in different
\* directories whose stems differ in letter case.
C13_Witness ==
    /\ pc = "raised"
    /\ exc = [type |-> "CliError", at |-> "find_images"]
    /\ \E f, g \in Cataloged : Collide(f, g) /\ StemOf(f) # StemOf(g)

\* -------------------------------------------------------------- C14 - C16
\* The sum of the sizes of a set of files.
RECURSIVE SumOfSizes(_)
SumOfSizes(S) ==
    IF S = {} THEN 0
    ELSE LET f == CHOOSE x \in S : TRUE
         IN  f.size + SumOfSizes(S \ {f})

\* The cataloged files the walk has come past.
Walked == Cataloged \ walk_todo

\* The walk is under way or over and no collision has ended it.
WalkUndisturbed == source_vols = 1 /\ exc.at # "find_images"

\* With locked-only the catalog, the totals and the counts come from locked
\* files alone.
LockedOnlyCatalog ==
    /\ \A i \in 1..Len(images_db) : images_db[i].file_locked
    /\ WalkUndisturbed =>
        /\ total_to_transfer = SumOfSizes(Walked)
        /\ locked_file_count = Cardinality(Walked)
        /\ \A t \in DOMAIN file_type_count :
               file_type_count[t] = Cardinality({ f \in Walked : Upper(ExtensionOf(f)) = t })
        /\ \A i \in 1..Len(images_db) : \A e \in 1..Len(images_db[i].extensions) :
               \E f \in Walked :
                   /\ f.locked
                   /\ NormalizedStem(StemOf(f)) = images_db[i].name
                   /\ ExtensionOf(f) = images_db[i].extensions[e]
        /\ (\A f \in src0 : ~f.locked) => images_db = <<>>

\* With locked-only every source file the copy phase has opened is locked.
LockedOnlyCopy ==
    \A t \in attempted :
        LET image == ImageOf(t[1])
        IN  Exists(src0, image.src_path, SrcName(image, t[3])) =>
                FileAt(src0, image.src_path, SrcName(image, t[3])).locked

\* C14 as stated: with download_locked_only an unlocked file adds nothing to
\* the catalog, the totals or the counts, every record is locked, and the
\* copy phase writes no destination file for an unlocked source file.
\* (Refuted by the code: the source path of a second extension is rebuilt
\* from the first file of the key and may name an unlocked file.)
C14_LockedOnlyFilter ==
    download_locked_only => LockedOnlyCatalog /\ LockedOnlyCopy

\* The places of the still extensions in a record's list.
StillExtensions(image) ==
    { e \in 1..Len(image.extensions) : InTypes(Upper(image.extensions[e]), still_file_types) }

\* How often this run has written the sidecar of a record at a destination.
SidecarWrites(dir, image) ==
    LET cs == { c \in sidecars : c.dir = dir /\ c.stem = image.dst_filename }
    IN  IF cs = {} THEN 0 ELSE (CHOOSE c \in cs : TRUE).writes

\* C15 as stated: a sidecar is written exactly once per still asset and
\* destination, also for an asset of several still extensions, and never for
\* an asset of motion files only.  (Refuted: it is written once for every
\* still extension.)
C15_SidecarOncePerAsset ==
    \A i \in 1..Len(images_db) : \A d \in 1..Len(destination_dirs) :
        /\ SidecarWrites(destination_dirs[d], images_db[i]) <= 1
        /\ StillExtensions(images_db[i]) = {} =>
               SidecarWrites(destination_dirs[d], images_db[i]) = 0

\* C15 amended: the sidecar of an asset at a destination has been written
\* once for every still extension of the asset the loops have gone past
\* there, so once per still extension when copy_image_files returns, and
\* never for an asset of motion files only; there is one sidecar file per
\* asset and destination, and no other.
C15_SidecarOncePerStillExtension ==
    /\ \A i \in 1..Len(images_db) : \A d \in 1..Len(destination_dirs) :
           SidecarWrites(destination_dirs[d], images_db[i]) =
               Cardinality({ e \in StillExtensions(images_db[i]) : PosBefore(<< i, d, e >>) })
    /\ AfterCopyPhase =>
           \A i \in 1..Len(images_db) : \A d \in 1..Len(destination_dirs) :
               SidecarWrites(destination_dirs[d], images_db[i]) =
                   Cardinality(StillExtensions(images_db[i]))
    /\ \A c \in sidecars :
           \E i \in 1..Len(images_db) : \E d \in 1..Len(destination_dirs) :
               /\ c.dir = destination_dirs[d]
               /\ c.stem = images_db[i].dst_filename
               /\ c.purple = images_db[i].file_locked
               /\ StillExtensions(images_db[i]) # {}
    /\ \A c1, c2 \in sidecars : (c1.dir = c2.dir /\ c1.stem = c2.stem) => c1 = c2

\* C15 witness: copy_image_files has returned; an asset of the extensions NEF
\* and JPG had its sidecar written twice at each of two destinations, and an
\* asset of one motion file has none.
C15_Witness ==
    /\ pc = "sync"
    /\ Len(destination_dirs) = 2
    /\ \E i, j \in 1..Len(images_db) :
           /\ Cardinality(StillExtensions(images_db[i])) = 2
           /\ \A d \in 1..2 : SidecarWrites(destination_dirs[d], images_db[i]) = 2
           /\ StillExtensions(images_db[j]) = {}
           /\ \A d \in 1..2 : SidecarWrites(destination_dirs[d], images_db[j]) = 0

\* The destination file names planned for one destination directory: one for
\* every extension of every record.
PlannedNames ==
    UNION { { << i, e >> : e \in 1..Len(images_db[i].extensions) } : i \in 1..Len(images_db) }

PlannedName(p) == DstName(images_db[p[1]], images_db[p[1]].extensions[p[2]])

\* C16 as stated: in a catalog find_source_images has returned no two planned
\* destination file names differ only in letter case.  (Refuted by the code:
\* the extensions of a record are compared with their case.)
C16_NoNamesDifferingInCase ==
    CatalogReturned =>
        \A p, q \in PlannedNames :
            Upper(PlannedName(p)) = Upper(PlannedName(q)) => p = q

\* -------------------------------------------------------------- C17 - C20
\* The places of do_download.
DoDownloadPlaces ==
    { "find_volume", "find_images", "check_writable", "prepare", "copy", "streaming",
      "post_copy", "sync", "delete", "unmount" }

\* do_download has returned to main: everything was copied, the source was
\* deleted if that was asked for, and the unmount is over.
DownloadReturned ==
    /\ pc \in {"resolve", "raised", "exit"}
    /\ exc.at \notin DoDownloadPlaces
    /\ CopyReturned
    /\ delete => srcFiles = {}
    /\ platform = "darwin" => ~mounted

\* C17: Lightroom and the Resolve ingest are started only after do_download
\* has returned; when do_download fails neither is started; and the step
\* that runs the ingest, failing or not, changes no file.
C17_HandoffAfterDownload ==
    /\ [](handoff # {} => DownloadReturned)
    /\ [](exc.at \in DoDownloadPlaces => handoff = {})
    /\ [][pc = "resolve" => UNCHANGED << srcFiles, dstDirs, dstFiles, sidecars >>]_vars

\* C17 witness: after a download with delete that copied files, Lightroom was
\* started and the Resolve ingest failed: main has returned 1.
C17_Witness ==
    /\ pc = "exit"
    /\ exitCode = 1
    /\ handoff = {"lightroom", "resolve"}
    /\ delete
    /\ copied # {}
    /\ srcFiles = {}

\* The files of the source volume that the run has removed.
RemovedFromSource == { f \in src0 : ~Exists(srcFiles, f.dir, f.name) }

\* The name a source file has at a destination: its stem without the
\* underscores, and its extension.
DestinationNameOf(f) == FileName(RemoveUnderscores(StemOf(f)), ExtensionOf(f))

\* C18 as stated: every file the source deletion has removed has, at every
\* destination directory of the run, a destination file of its size.
\* (Refuted by the code: rmtree removes the whole DCIM tree, files that were
\* never cataloged and files of assets skipped as duplicates included.)
C18_NoLossOnDelete ==
    \A f \in RemovedFromSource :
        \A d \in 1..Len(destination_paths) :
            /\ Exists(dstFiles, destination_paths[d], DestinationNameOf(f))
            /\ FileAt(dstFiles, destination_paths[d], DestinationNameOf(f)).size = f.size

\* The source file the code's rebuilt path names for position p is f.
SourceOfPosition(p, f) ==
    /\ f.dir = images_db[p[1]].src_path
    /\ f.name = SrcName(images_db[p[1]], images_db[p[1]].extensions[p[3]])

AtLockedDuplicate ==
    /\ CurImage.file_locked
    /\ InList(CurImage.name, CurSkip)

\* C20 as stated: for a locked asset marked duplicate at a destination the
\* write protection is changed only at a path where a file exists, and
\* copy_image_files does not fail there.  (Refuted by the code: the
\* destination path is made writable whether or not the file exists.)
C20_LockedDuplicateCompletes ==
    /\ (pc = "post_copy" /\ AtLockedDuplicate) =>
           Exists(dstFiles, CurDest, DstName(CurImage, CurExtension))
    /\ ~(exc.at = "post_copy" /\ exc.type = "OSError" /\ AtLockedDuplicate)

\* -------------------------------------------------------------- C21 - C22
\* The cataloged files that stand behind one extension of a record.
FilesOf(image, extension) ==
    { f \in Cataloged :
        /\ NormalizedStem(StemOf(f)) = image.name
        /\ ExtensionOf(f) = extension }

\* C21 as stated: for every record and every extension of its list the
\* rebuilt source path src_path/src_filename.extension is the path of the
\* file that was cataloged for that extension.  (Refuted by the code: the
\* directory and the stem are those of the first file of the key only.)
C21_SourcePathConsistency ==
    CatalogReturned =>
        \A i \in 1..Len(images_db) : \A e \in 1..Len(images_db[i].extensions) :
            \E f \in FilesOf(images_db[i], images_db[i].extensions[e]) :
                /\ f.dir = images_db[i].src_path
                /\ f.name = SrcName(images_db[i], images_db[i].extensions[e])

\* C22 as stated: find_source_images fails only with the CliError of a
\* naming collision or with the error of a failed stat.  (Refuted by the
\* code: a key of fewer than four characters raises IndexError.)
C22_FailsOnlyOnCollisionOrStat ==
    (pc = "raised" /\ exc.at = "find_images") => exc.type \in {"CliError", "OSError"}

\* ---------------------------------------------------------------- C23
\* Every catalog key is in every duplicate list made so far.
EveryKeyDuplicate ==
    \A d \in 1..Len(duplicates) : \A i \in 1..Len(images_db) :
        InList(images_db[i].name, duplicates[d])

\* C23: in a second run after a successful run without delete every catalog
\* key is in the duplicate list of every destination, nothing is copied, and
\* every destination image file is what it was, write protection included.
C23_RerunCopiesNothing ==
    run = 2 =>
        /\ EveryKeyDuplicate
        /\ attempted = {}
        /\ copied = {}
        /\ already_copied = 0
        /\ dstFiles = dst0

\* ---------------------------------------------------------------- C24
\* C24: every sidecar this run has written at a destination belongs to an
\* asset of which a still file was copied to that destination in this run;
\* an asset skipped there has none.  (Refuted by the code: the sidecar is
\* written outside the test that guards the copy.)
C24_SidecarOnlyForCopiedStill ==
    \A c \in sidecars :
        \E i \in 1..Len(images_db) : \E e \in StillExtensions(images_db[i]) :
            /\ c.stem = images_db[i].dst_filename
            /\ << images_db[i].name, c.dir, images_db[i].extensions[e] >> \in copied

\* ---------------------------------------------------------------- C25
\* The max_value the progress bar is created with.
ProgressMaximum == Len(destination_dirs) * total_to_transfer

\* The (asset, destination) pairs copy_image_files does not copy.
SkippedPairs ==
    { p \in (1..Len(images_db)) \X (1..Len(duplicates)) :
        ~ShouldCopy(images_db[p[1]], duplicates[p[2]]) }

\* C25: every update of the tracker raises the cumulative byte count; the
\* count never exceeds the bar's maximum (no source file changes size in the
\* model); when copy_image_files has returned the count equals the maximum
\* exactly if no (asset, destination) pair was skipped.  (Refuted by the
\* code: the bytes copied are those of the file at the rebuilt source path,
\* which need not be the file whose size was cataloged.)
C25_ProgressAccounting ==
    /\ [][already_copied' # already_copied => already_copied' > already_copied]_vars
    /\ [](already_copied <= ProgressMaximum)
    /\ [](AfterCopyPhase => (already_copied = ProgressMaximum <=> SkippedPairs = {}))

\* ---------------------------------------------------------------- C26
\* The sum of the sizes of the first n records.
RECURSIVE SumOfRecordSizes(_)
SumOfRecordSizes(n) ==
    IF n = 0 THEN 0 ELSE images_db[n].size + SumOfRecordSizes(n - 1)

\* The number of (record, extension) pairs of the first n records.
RECURSIVE NumberOfPairs(_)
NumberOfPairs(n) ==
    IF n = 0 THEN 0 ELSE Len(images_db[n].extensions) + NumberOfPairs(n - 1)

\* The sum of the counts of a set of file types.
RECURSIVE SumOfCounts(_)
SumOfCounts(T) ==
    IF T = {} THEN 0
    ELSE LET t == CHOOSE x \in T : TRUE
         IN  file_type_count[t] + SumOfCounts(T \ {t})

\* The cataloged files listed under the extensions of a record.
FilesOfRecord(image) ==
    UNION { FilesOf(image, image.extensions[e]) : e \in 1..Len(image.extensions) }

\* C26: after the first successful find_source_images of a process each
\* record's size is the sum of the sizes of the files listed under its
\* extensions, total_to_transfer is the sum of the record sizes, the counts
\* per extension sum to the number of (record, extension) pairs, and
\* locked_file_count is the number of cataloged files that were locked.
C26_CatalogTotals ==
    (CatalogReturned /\ calls = 1) =>
        /\ \A i \in 1..Len(images_db) :
               images_db[i].size = SumOfSizes(FilesOfRecord(images_db[i]))
        /\ total_to_transfer = SumOfRecordSizes(Len(images_db))
        /\ SumOfCounts(DOMAIN file_type_count) = NumberOfPairs(Len(images_db))
        /\ locked_file_count = Cardinality({ f \in Cataloged : f.locked })

\* C26 witness: a catalog of two records, one of them of two files of
\* different sizes, with locked and unlocked files in it.
C26_Witness ==
    /\ CatalogReturned
    /\ calls = 1
    /\ Len(images_db) = 2
    /\ \E i \in 1..2 : Len(images_db[i].extensions) = 2
    /\ \E f, g \in Cataloged : f.locked /\ ~g.locked /\ f.size # g.size
    /\ locked_file_count > 0
    /\ locked_file_count < Cardinality(Cataloged)

\* ---------------------------------------------------------------- C27
\* The orders in which the files of a set can be enumerated.
Orders(S) ==
    { o \in [1..Cardinality(S) -> S] : \A a, b \in 1..Cardinality(S) : o[a] = o[b] => a = b }

\* C27: the file_locked of every record of the returned catalog is the value
\* that every enumeration order of the asset's files gives.  (Refuted by the
\* code: the flag is that of the file that comes first.)
C27_LockFlagOrderIndependent ==
    CatalogReturned =>
        \A i \in 1..Len(images_db) : \A o \in Orders(FilesOfRecord(images_db[i])) :
            RecordFileLocked(o) = images_db[i].file_locked

\* ---------------------------------------------------------------- C28
\* C28: a second call of find_source_images in one process over the same
\* unchanged source raises no CliError, and the catalog and the aggregates
\* it returns are those of the files of its own walk, as after the first
\* call.  (Refuted by the code: images_db and the counters are module-level
\* and are not reset, so the second call meets its own records.)
C28_CatalogBuiltFresh ==
    calls = 2 =>
        /\ ~(exc.type = "CliError" /\ exc.at = "find_images")
        /\ CatalogReturned =>
               /\ \A i \in 1..Len(images_db) :
                      images_db[i].size = SumOfSizes(FilesOfRecord(images_db[i]))
               /\ total_to_transfer = SumOfSizes(Cataloged)
               /\ SumOfCounts(DOMAIN file_type_count) = Cardinality(Cataloged)
               /\ locked_file_count = Cardinality({ f \in Cataloged : f.locked })

\* ---------------------------------------------------------------- C29
\* The number of dots of a file name, and what follows its last dot.
NumberOfDots(name) == Cardinality({ k \in 1..Len(name) : name[k] = "." })
AfterLastDot(name) ==
    LET dots == { k \in 1..Len(name) : name[k] = "." }
        last == CHOOSE k \in dots : \A j \in dots : j <= k
    IN  SubSeq(name, last + 1, Len(name))

\* The files of the source tree the filter lets through: the name does not
\* start with a dot, has exactly one dot, and its extension in upper case is
\* a recognized still or motion type; under locked-only the locked ones.
PassTheFilter ==
    { f \in src0 :
        /\ f.name[1] # "."
        /\ NumberOfDots(f.name) = 1
        /\ \E t \in 1..Len(still_file_types \o motion_file_types) :
               TypeChars((still_file_types \o motion_file_types)[t]) = Upper(AfterLastDot(f.name))
        /\ download_locked_only => f.locked }

\* C29: while find_source_images walks, and when it has returned, the
\* total, the counts and the (record, extension) pairs of the catalog are
\* those of the files passed by that let the filter through, each of which
\* has a record of its key that lists its extension: every other file has
\* contributed nothing.
C29_FileFilter ==
    (calls = 1 /\ (CatalogReturned \/ (pc = "find_images" /\ source_vols = 1))) =>
        /\ \A f \in PassTheFilter \ walk_todo :
               \E i \in 1..Len(images_db) :
                   /\ images_db[i].name = Upper(RemoveUnderscores(SplitDot(f.name)[1]))
                   /\ InList(AfterLastDot(f.name), images_db[i].extensions)
        /\ NumberOfPairs(Len(images_db)) = Cardinality(PassTheFilter \ walk_todo)
        /\ SumOfCounts(DOMAIN file_type_count) = Cardinality(PassTheFilter \ walk_todo)
        /\ total_to_transfer = SumOfSizes(PassTheFilter \ walk_todo)
        /\ SumOfRecordSizes(Len(images_db)) = SumOfSizes(PassTheFilter \ walk_todo)

\* C29 witness: find_source_images has returned a catalog from a tree that
\* also holds a file with two dots and a file of an unrecognized extension.
C29_Witness ==
    /\ CatalogReturned
    /\ calls = 1
    /\ Len(images_db) = 1
    /\ \E f \in src0 : NumberOfDots(f.name) = 2
    /\ \E f \in src0 : NumberOfDots(f.name) = 1 /\ f \notin PassTheFilter /\ f.locked

\* ---------------------------------------------------------------- C30
\* The catalog key of a file, and the image files the walk has come past.
KeyOf(f) == Upper(RemoveUnderscores(StemOf(f)))
Passed == ImageFiles \ walk_todo

\* The key ends in 9999; the key has 9 as its fourth character from the end.
EndsIn9999(key) ==
    /\ Len(key) >= 4
    /\ \A k \in (Len(key) - 3)..Len(key) : key[k] = "9"
NineFourthFromLast(key) == Len(key) >= 4 /\ key[Len(key) - 3] = "9"

\* find_source_images is walking or has returned.
Building == calls = 1 /\ (pc = "find_images" \/ CatalogReturned)

\* C30: during find_source_images the rollover-occurred flag is set exactly
\* if a file with a key ending in 9999 has been passed, and the
\* near-rollover flag exactly if a file with 9 as the fourth character from
\* the end of its key has been passed, so that a key 9xyz other than 9999
\* sets the near-rollover flag only; a flag that is set stays set; and the
\* warning printed at the end is the rollover one whenever the
\* rollover-occurred flag is set, the near-rollover one when only that flag
\* is set.
C30_RolloverFlags ==
    /\ [](Building =>
            /\ rolloverOccurred <=> \E f \in Passed : EndsIn9999(KeyOf(f))
            /\ nearRollover <=> \E f \in Passed : NineFourthFromLast(KeyOf(f)))
    /\ [][(nearRollover => nearRollover') /\ (rolloverOccurred => rolloverOccurred')]_vars
    /\ [](CatalogReturned =>
            warning = (IF rolloverOccurred THEN "rolled_over"
                       ELSE IF nearRollover THEN "nearing" ELSE "none"))

\* C30 witness: the catalog was returned with both flags set and the
\* rollover warning, from a tree with a key ending in 9999.
C30_Witness ==
    /\ CatalogReturned
    /\ calls = 1
    /\ rolloverOccurred
    /\ nearRollover
    /\ warning = "rolled_over"
    /\ \E f \in Cataloged : EndsIn9999(KeyOf(f))
    /\ \E f \in ImageFiles : NineFourthFromLast(KeyOf(f)) /\ ~EndsIn9999(KeyOf(f))

=============================================================================
